---- MODULE Spec2Model ----
(***************************************************************************)
(* Model of the ContentManager of h5p-demo (src/src/ContentManager.ts):    *)
(* the pass-through operations, loadContent / loadH5PJson and the package  *)
(* importer copyContentFromDirectory, running against a storage backend    *)
(* that satisfies the storage contract (IContentStorage).                  *)
(*                                                                         *)
(* A file name is the sequence of its dot-separated parts, so that         *)
(* "a.png" is <<"a","png">> and "README" is <<"README">>; a path is a      *)
(* sequence of names.                                                      *)
(***************************************************************************)
EXTENDS Integers, Sequences, FiniteSets, TLC

\* ------------------------------------------------------------------ bounds
MaxId == 2
MaxCalls == 1
MaxLoneCalls == 3

\* ------------------------------------------------------------------- paths
H5pJsonName == <<"h5p", "json">>
ContentJsonName == <<"content", "json">>
ContentDirName == <<"content">>
ParentName == <<"", "", "">>

PackageDirectory == << <<"tmp">>, <<"pkg">> >>

\* path.join(a, b)
PathJoin(a, b) == a \o b

RECURSIVE CommonPrefixLen(_, _)
CommonPrefixLen(a, b) ==
    IF a = <<>> \/ b = <<>> \/ Head(a) # Head(b)
    THEN 0
    ELSE 1 + CommonPrefixLen(Tail(a), Tail(b))

\* path.relative(from, to): one ".." for every segment of `from` below the
\* common ancestor, then the rest of `to`.
PathRelative(from, to) ==
    LET k == CommonPrefixLen(from, to)
    IN  [i \in 1..(Len(from) - k) |-> ParentName] \o SubSeq(to, k + 1, Len(to))

ImageA == << <<"images">>, <<"a", "png">> >>
ImageB == << <<"images">>, <<"b", "png">> >>
Readme == << <<"README">> >>

\* the auxiliary files a staged package may hold, relative to content/
AuxFiles == {ImageA, ImageB, Readme}

\* reserved relative paths of the two canonical documents in storage
MetadataFile == <<H5pJsonName>>
ContentFile == <<ContentDirName, ContentJsonName>>
ReservedPaths == {MetadataFile, ContentFile}

StoragePaths == ReservedPaths \cup AuxFiles \cup {<<ContentJsonName>>}
NoPath == <<>>

\* ---------------------------------------------------------------- documents
Missing == "<missing>"
DemoCompact == "{\"title\":\"Demo\"}"
DemoSpaced == "{ \"title\": \"Demo\" }"
EmptyObject == "{}"
BadJson == "{oops"

DemoValue == "object(title=Demo)"
EmptyValue == "object()"
NoValue == "<undefined>"

\* JSON.parse: the decoded value, or NoValue when the text is not JSON
JSONParse(text) ==
    CASE text = DemoCompact -> DemoValue
      [] text = DemoSpaced -> DemoValue
      [] text = EmptyObject -> EmptyValue
      [] OTHER -> NoValue

\* JSON.stringify of a decoded value
JSONStringify(value) ==
    CASE value = DemoValue -> DemoCompact
      [] value = EmptyValue -> EmptyObject
      [] OTHER -> Missing

\* bytes of an auxiliary file in the staging area
AuxBytes(rel) ==
    CASE rel = ImageA -> "PNGa"
      [] rel = ImageB -> "PNGbPNGb"
      [] OTHER -> "readme"

\* ------------------------------------------------------------------ errors
NoError == [kind |-> "none", op |-> "none", file |-> NoPath]
Error(kind, op, file) == [kind |-> kind, op |-> op, file |-> file]

NoId == 0
ContentIds == 1..MaxId

Ok(value) == [ok |-> TRUE, value |-> value, error |-> NoError]
Fail(error) == [ok |-> FALSE, value |-> NoId, error |-> error]

\* ------------------------------------------------------------------- users
Users == {"alice", "bob"}
NoUser == "<no user>"
Permissions == {"View", "Edit"}

\* -------------------------------------------------------- storage contract
NoObject == [exists |-> FALSE, files |-> [p \in StoragePaths |-> Missing]]

\* createContentId: an identifier that is not in use
FreeIds(st) == {i \in ContentIds : ~st[i].exists}

StorageCreateContentId(st) ==
    IF FreeIds(st) = {}
    THEN Fail(Error("StorageError", "createContentId", NoPath))
    ELSE Ok(CHOOSE i \in FreeIds(st) : \A j \in FreeIds(st) : i <= j)

\* createContent: one commit of the two canonical documents; a supplied id is
\* used as it is, otherwise one is generated
StorageCreateContent(st, metadata, content, user, contentId, fault) ==
    LET gen == StorageCreateContentId(st)
        id == IF contentId # NoId THEN contentId ELSE gen.value
    IN  IF fault \/ id = NoId
        THEN [result |-> Fail(Error("StorageError", "createContent", NoPath)),
              store |-> st]
        ELSE [result |-> Ok(id),
              store |-> [st EXCEPT ![id] =
                  [exists |-> TRUE,
                   files |-> [p \in StoragePaths |->
                       CASE p = MetadataFile -> JSONStringify(metadata)
                         [] p = ContentFile -> JSONStringify(content)
                         [] OTHER -> Missing]]]]

\* addContentFile: writes or overwrites one file of an existing object
StorageAddContentFile(st, pm, contentId, filename, stream, user, fault) ==
    CASE contentId \notin ContentIds \/ ~st[contentId].exists ->
            [result |-> Fail(Error("NotFoundError", "addContentFile", filename)),
             store |-> st]
      [] user # NoUser /\ "Edit" \notin pm[contentId][user] ->
            [result |-> Fail(Error("PermissionError", "addContentFile", filename)),
             store |-> st]
      [] fault \/ stream = Missing ->
            [result |-> Fail(Error("IOError", "addContentFile", filename)),
             store |-> st]
      [] OTHER ->
            [result |-> Ok(NoId),
             store |-> [st EXCEPT ![contentId].files[filename] = stream]]

\* deleteContent: removes the object and all its files; deleting an object
\* that is not there is not an error
StorageDeleteContent(st, contentId, fault) ==
    CASE fault ->
            [result |-> Fail(Error("IOError", "deleteContent", NoPath)),
             store |-> st]
      [] contentId \notin ContentIds ->
            [result |-> Ok(NoId), store |-> st]
      [] OTHER ->
            [result |-> Ok(NoId),
             store |-> [st EXCEPT ![contentId] = NoObject]]

StorageContentExists(st, contentId) ==
    contentId \in ContentIds /\ st[contentId].exists

\* getContentFiles: the auxiliary files of the object
StorageGetContentFiles(st, contentId) ==
    IF StorageContentExists(st, contentId)
    THEN {p \in StoragePaths \ ReservedPaths :
             st[contentId].files[p] # Missing}
    ELSE {}

StorageGetUserPermissions(pm, contentId, user) ==
    IF contentId \in ContentIds /\ user \in Users
    THEN pm[contentId][user]
    ELSE {}

\* getContentFileStream: [error, bytes] of the stream handed back
StorageGetContentFileStream(st, pm, contentId, filename, user) ==
    CASE "View" \notin StorageGetUserPermissions(pm, contentId, user) ->
            [error |-> Error("PermissionError", "getContentFileStream", filename),
             bytes |-> Missing]
      [] ~StorageContentExists(st, contentId) ->
            [error |-> Error("NotFoundError", "getContentFileStream", filename),
             bytes |-> Missing]
      [] st[contentId].files[filename] = Missing ->
            [error |-> Error("NotFoundError", "getContentFileStream", filename),
             bytes |-> Missing]
      [] OTHER ->
            [error |-> NoError, bytes |-> st[contentId].files[filename]]

\* ------------------------------------------------------------ staging area
\* A staged package: the bytes of h5p.json and of content/content.json
\* (Missing when the file is not there) and the auxiliary files under content/.
Package(h, c, a) == [h5p |-> h, content |-> c, aux |-> a]

Packages ==
    {Package(DemoCompact, EmptyObject, a) :
        a \in {{}, {ImageA}, {ImageA, ImageB}, {ImageA, Readme}}}
    \cup {Package(DemoSpaced, EmptyObject, {ImageA}),
          Package(BadJson, EmptyObject, {ImageA}),
          Package(Missing, EmptyObject, {ImageA}),
          Package(DemoCompact, BadJson, {ImageA})}

\* the calls of copyContentFromDirectory that are explored
CallInputs ==
    ({Package(DemoCompact, EmptyObject, {}),
      Package(DemoCompact, EmptyObject, {ImageA})} \X Users \X {NoId, MaxId})
    \cup ((Packages \ {Package(DemoCompact, EmptyObject, {})})
          \X {"alice"} \X {NoId})

NoPackage == [h5p |-> Missing, content |-> Missing, aux |-> {}]

ContentDirectory == PathJoin(PackageDirectory, <<ContentDirName>>)

StagedFiles(p) ==
    (IF p.h5p # Missing THEN {PathJoin(PackageDirectory, <<H5pJsonName>>)} ELSE {})
    \cup (IF p.content # Missing
          THEN {PathJoin(ContentDirectory, <<ContentJsonName>>)} ELSE {})
    \cup {PathJoin(ContentDirectory, rel) : rel \in p.aux}

StagedDirectories(p) ==
    UNION {{SubSeq(f, 1, n) : n \in 1..(Len(f) - 1)} : f \in StagedFiles(p)}

\* bytes a read stream of the staged file delivers
FileBytes(p, file) ==
    CASE file \notin StagedFiles(p) -> Missing
      [] file = PathJoin(PackageDirectory, <<H5pJsonName>>) -> p.h5p
      [] file = PathJoin(ContentDirectory, <<ContentJsonName>>) -> p.content
      [] OTHER -> AuxBytes(SubSeq(file, Len(ContentDirectory) + 1, Len(file)))

\* fsExtra.readJSON(file)
ReadJSON(p, file) ==
    CASE FileBytes(p, file) = Missing ->
            [ok |-> FALSE, doc |-> NoValue,
             error |-> Error("IOError", "readJSON", file)]
      [] JSONParse(FileBytes(p, file)) = NoValue ->
            [ok |-> FALSE, doc |-> NoValue,
             error |-> Error("DecodeError", "readJSON", file)]
      [] OTHER ->
            [ok |-> TRUE, doc |-> JSONParse(FileBytes(p, file)), error |-> NoError]

\* the glob segment "*.*": a name with a dot in it that does not start with one
MatchesStarDotStar(name) == Len(name) >= 2 /\ name[1] # ""

IsUnder(dir, entry) ==
    Len(entry) > Len(dir) /\ SubSeq(entry, 1, Len(dir)) = dir

\* globPromise(path.join(dir, '**/*.*')): every entry (file or directory) at any
\* depth under dir whose name matches *.*, reached without entering a
\* directory whose name starts with a dot
Glob(p, dir) ==
    {e \in StagedFiles(p) \cup StagedDirectories(p) :
        /\ IsUnder(dir, e)
        /\ MatchesStarDotStar(e[Len(e)])
        /\ \A i \in (Len(dir) + 1)..(Len(e) - 1) : e[i][1] # ""}

\* the filter of lines 84-87
KeepFile(file) == PathRelative(PackageDirectory, file) # <<ContentJsonName>>

OtherContentFiles(p) == {file \in Glob(p, ContentDirectory) : KeepFile(file)}

\* path.relative(path.join(packageDirectory, 'content'), file)
LocalPath(file) == PathRelative(ContentDirectory, file)

\* ------------------------------------------------------------------- state
VARIABLES
    store,              \* the backend: content id -> object
    perms,              \* the backend: content id -> user -> permissions
    pc,                 \* position of the copyContentFromDirectory call
    pkg,                \* the staged package at packageDirectory
    user,               \* argument user
    contentId,          \* argument contentId (NoId when not supplied)
    metadata,           \* local metadata
    content,            \* local content
    otherContentFiles,  \* local otherContentFiles
    newContentId,       \* local newContentId
    copy,               \* local path -> state of its addContentFile promise
    error,              \* the error caught by the catch block
    result,             \* what the call returned or rejected with
    log,                \* storage operations issued by the import, in order
    recreated,          \* newContentId was created again after the rollback
    lastCall,           \* the last call of another caller and what it did
    ncalls              \* number of calls of other callers so far

vars == <<store, perms, pc, pkg, user, contentId, metadata, content,
          otherContentFiles, newContentId, copy, error, result, log,
          recreated, lastCall, ncalls>>

importVars == <<pc, pkg, user, contentId, metadata, content, otherContentFiles,
                newContentId, copy, error, result, log>>

NoCall ==
    [method |-> "none",
     args |-> [cid |-> 0, filename |-> <<>>, stream |-> "<missing>",
               user |-> "<no user>", metadata |-> "<undefined>",
               content |-> "<undefined>"],
     calls |-> <<>>,
     result |-> [ok |-> TRUE, id |-> 0, flag |-> FALSE, files |-> {},
                 grants |-> {}, text |-> "<missing>",
                 error |-> [kind |-> "none", op |-> "none", file |-> <<>>]]]

Init ==
    /\ store = [i \in ContentIds |-> NoObject]
    /\ perms = [i \in ContentIds |->
                   [u \in Users |-> IF u = "alice" THEN Permissions ELSE {}]]
    /\ pc = "idle"
    /\ pkg = NoPackage
    /\ user = NoUser
    /\ contentId = NoId
    /\ metadata = NoValue
    /\ content = NoValue
    /\ otherContentFiles = {}
    /\ newContentId = NoId
    /\ copy = [p \in StoragePaths |-> "none"]
    /\ error = NoError
    /\ result = Fail(NoError)
    /\ log = <<>>
    /\ recreated = FALSE
    /\ lastCall = NoCall
    /\ ncalls = 0

Event(op, ev, id, files, u) ==
    [op |-> op, ev |-> ev, id |-> id, files |-> files, user |-> u]

\* ------------------------------------------- copyContentFromDirectory
\* a copy phase that hands the importing user on to addContentFile
CopyUserForwarded(u) == u

\* the user the copy phase hands to addContentFile: none (lines 103-107)
CopyUser(u) == NoUser

\* a createContent call that leaves the caller's contentId out
ForwardedContentIdDropped(cid) == NoId

\* the contentId handed to createContent: the caller's (line 93)
ForwardedContentId(cid) == cid

\* a rollback that falls back on a fixed id when the caller passed none
RollbackIdDefault(newId, argId) == IF argId # NoId THEN argId ELSE 1

\* a try block that also covers the createContent call
TryCoversWide(stage) == stage \in {"copy", "create"}

\* the awaits that lie inside the try block of lines 95-113
TryCovers(stage) == stage = "copy"

\* a rollback of the id the caller passed in instead of the id created
RollbackIdOfArgument(newId, argId) == argId

\* the id the catch block hands to deleteContent (line 111)
RollbackId(newId, argId) == newId

\* a copy phase that does not wait for createContent
MayStartCopiesEarly(at) == at \in {"createContent", "startCopies"}

\* the position at which the copy phase of lines 96-109 is entered
MayStartCopies(at) == at = "startCopies"

\* Promise.all over the addContentFile promises of `files`: rejected as soon
\* as one of them is rejected, fulfilled when all are fulfilled
PromiseAll(cp, files) ==
    CASE \E f \in files : cp[f] = "failed" -> "rejected"
      [] \A f \in files : cp[f] = "ok" -> "fulfilled"
      [] OTHER -> "pending"

\* a catch block that swallows the error and lets the call return the id
CatchResultSwallowed(newId, caught, deleted) == Ok(newId)

\* what the call rejects with when the catch block has run: the await of
\* deleteContent (line 111) throws when the rollback fails, otherwise line
\* 112 throws the caught error
CatchResult(newId, caught, deleted) ==
    IF deleted.ok THEN Fail(caught) ELSE Fail(deleted.error)

\* a caller invokes copyContentFromDirectory(packageDirectory, user, contentId)
Call(p, u, cid) ==
    /\ pc = "idle"
    /\ pc' = "readMetadata"
    /\ pkg' = p
    /\ user' = u
    /\ contentId' = cid
    /\ UNCHANGED <<store, perms, metadata, content, otherContentFiles,
                   newContentId, copy, error, result, log, recreated,
                   lastCall, ncalls>>

\* lines 76-78
ReadMetadata ==
    /\ pc = "readMetadata"
    /\ LET r == ReadJSON(pkg, PathJoin(PackageDirectory, <<H5pJsonName>>))
       IN  IF r.ok
           THEN /\ metadata' = r.doc
                /\ pc' = "readContent"
                /\ UNCHANGED result
           ELSE /\ result' = Fail(r.error)
                /\ pc' = "rejected"
                /\ UNCHANGED metadata
    /\ UNCHANGED <<store, perms, pkg, user, contentId, content,
                   otherContentFiles, newContentId, copy, error, log,
                   recreated, lastCall, ncalls>>

\* lines 79-81
ReadContent ==
    /\ pc = "readContent"
    /\ LET r == ReadJSON(pkg, PathJoin(ContentDirectory, <<ContentJsonName>>))
       IN  IF r.ok
           THEN /\ content' = r.doc
                /\ pc' = "glob"
                /\ UNCHANGED result
           ELSE /\ result' = Fail(r.error)
                /\ pc' = "rejected"
                /\ UNCHANGED content
    /\ UNCHANGED <<store, perms, pkg, user, contentId, metadata,
                   otherContentFiles, newContentId, copy, error, log,
                   recreated, lastCall, ncalls>>

\* lines 82-87
GlobFiles ==
    /\ pc = "glob"
    /\ otherContentFiles' = OtherContentFiles(pkg)
    /\ pc' = "createContent"
    /\ UNCHANGED <<store, perms, pkg, user, contentId, metadata, content,
                   newContentId, copy, error, result, log, recreated,
                   lastCall, ncalls>>

\* lines 89-94: createContent is called and settles
CreateContent(fault) ==
    /\ pc = "createContent"
    /\ LET r == StorageCreateContent(store, metadata, content, user,
                                     ForwardedContentId(contentId), fault)
           called == Event("createContent", "call",
                           ForwardedContentId(contentId), {}, user)
           settled == Event("createContent",
                            IF r.result.ok THEN "ok" ELSE "fail",
                            r.result.value, {}, user)
       IN  /\ store' = r.store
           /\ newContentId' = r.result.value
           /\ IF r.result.ok
              THEN /\ pc' = "startCopies"
                   /\ log' = log \o <<called, settled>>
                   /\ UNCHANGED <<error, result>>
              ELSE IF TryCovers("create")
              THEN /\ pc' = "rollback"
                   /\ error' = r.result.error
                   /\ log' = log \o <<called, settled,
                                Event("deleteContent", "call",
                                      RollbackId(r.result.value, contentId),
                                      {}, NoUser)>>
                   /\ UNCHANGED result
              ELSE /\ pc' = "rejected"
                   /\ result' = Fail(r.result.error)
                   /\ log' = log \o <<called, settled>>
                   /\ UNCHANGED error
    /\ UNCHANGED <<perms, pkg, user, contentId, metadata, content,
                   otherContentFiles, copy, recreated, lastCall, ncalls>>

\* lines 96-109: the map starts one addContentFile per enumerated file, without
\* a user; Promise.all of an empty list is fulfilled and the call returns
StartCopies ==
    /\ MayStartCopies(pc)
    /\ LET files == {LocalPath(f) : f \in otherContentFiles}
       IN  IF files = {}
           THEN /\ pc' = "returned"
                /\ result' = Ok(newContentId)
                /\ UNCHANGED <<copy, log>>
           ELSE /\ pc' = "copying"
                /\ copy' = [p \in StoragePaths |->
                               IF p \in files THEN "inflight" ELSE "none"]
                /\ log' = Append(log, Event("addContentFile", "call",
                                            newContentId, files,
                                            CopyUser(user)))
                /\ UNCHANGED result
    /\ UNCHANGED <<store, perms, pkg, user, contentId, metadata, content,
                   otherContentFiles, newContentId, error, recreated,
                   lastCall, ncalls>>

\* one addContentFile of the copy phase settles.  While Promise.all is pending
\* (pc = "copying") a rejection enters the catch block, which calls
\* deleteContent (line 111), and the last fulfilment lets the call return
\* (line 114); a copy that settles later has nobody waiting for it.
CopySettle(f, fault) ==
    /\ copy[f] = "inflight"
    /\ LET file == CHOOSE g \in otherContentFiles : LocalPath(g) = f
           r == StorageAddContentFile(store, perms, newContentId, f,
                                      FileBytes(pkg, file), CopyUser(user),
                                      fault)
           cp == [copy EXCEPT ![f] = IF r.result.ok THEN "ok" ELSE "failed"]
           files == {p \in StoragePaths : copy[p] # "none"}
           settled == Event("addContentFile",
                            IF r.result.ok THEN "ok" ELSE "fail",
                            newContentId, {f}, CopyUser(user))
       IN  /\ store' = r.store
           /\ copy' = cp
           /\ CASE pc = "copying" /\ PromiseAll(cp, files) = "rejected" ->
                     /\ pc' = "rollback"
                     /\ error' = r.result.error
                     /\ log' = log \o <<settled,
                                  Event("deleteContent", "call",
                                        RollbackId(newContentId, contentId),
                                        {}, NoUser)>>
                     /\ UNCHANGED result
                [] pc = "copying" /\ PromiseAll(cp, files) = "fulfilled" ->
                     /\ pc' = "returned"
                     /\ result' = Ok(newContentId)
                     /\ log' = Append(log, settled)
                     /\ UNCHANGED error
                [] OTHER ->
                     /\ log' = Append(log, settled)
                     /\ UNCHANGED <<pc, error, result>>
    /\ UNCHANGED <<perms, pkg, user, contentId, metadata, content,
                   otherContentFiles, newContentId, recreated, lastCall, ncalls>>

\* lines 111-112: the rollback settles and the call rejects
DeleteSettle(fault) ==
    /\ pc = "rollback"
    /\ LET r == StorageDeleteContent(store,
                                     RollbackId(newContentId, contentId), fault)
       IN  /\ store' = r.store
           /\ result' = CatchResult(newContentId, error, r.result)
           /\ log' = Append(log, Event("deleteContent",
                                       IF r.result.ok THEN "ok" ELSE "fail",
                                       RollbackId(newContentId, contentId),
                                       {}, NoUser))
    /\ pc' = IF result'.ok THEN "returned" ELSE "rejected"
    /\ UNCHANGED <<perms, pkg, user, contentId, metadata, content,
                   otherContentFiles, newContentId, copy, error, recreated,
                   lastCall, ncalls>>

Import ==
    \/ \E c \in CallInputs : Call(c[1], c[2], c[3])
    \/ ReadMetadata
    \/ ReadContent
    \/ GlobFiles
    \/ \E fault \in BOOLEAN : CreateContent(fault)
    \/ StartCopies
    \/ \E f \in StoragePaths, fault \in BOOLEAN : CopySettle(f, fault)
    \/ \E fault \in BOOLEAN : DeleteSettle(fault)

\* ------------------------------------------------- calls of other callers
\* a manager that took a copy of the storage when it was constructed
ContentStorageCopied(st) == [i \in ContentIds |-> NoObject]

\* the storage a method reads: the backend itself, through the reference the
\* constructor kept (lines 26-30)
ContentStorage(st) == st

\* What a method was called with and what it yielded are kept in records of
\* one shape: the arguments a method does not take, and the parts a result
\* does not have, keep the values below.
NoArgs ==
    [cid |-> NoId, filename |-> NoPath, stream |-> Missing, user |-> NoUser,
     metadata |-> NoValue, content |-> NoValue]

NoResult ==
    [ok |-> TRUE, id |-> NoId, flag |-> FALSE, files |-> {}, grants |-> {},
     text |-> Missing, error |-> NoError]

IdResult(r) == [NoResult EXCEPT !.ok = r.ok, !.id = r.value, !.error = r.error]
FlagResult(b) == [NoResult EXCEPT !.flag = b]
FilesResult(fs) == [NoResult EXCEPT !.files = fs]
GrantsResult(g) == [NoResult EXCEPT !.grants = g]
StreamResult(s) ==
    [NoResult EXCEPT !.ok = (s.error = NoError), !.text = s.bytes,
                     !.error = s.error]
DocResult(d) == [NoResult EXCEPT !.ok = d.ok, !.text = d.doc, !.error = d.error]

DocOk(doc) == [ok |-> TRUE, doc |-> doc, error |-> NoError]
DocFail(err) == [ok |-> FALSE, doc |-> NoValue, error |-> err]

StorageCall(op, args, res) == [op |-> op, args |-> args, result |-> res]

Called(method, args, calls, res) ==
    [method |-> method, args |-> args, calls |-> calls, result |-> res]

\* a forward of addContentFile that leaves the user out
AddContentFileArgsNoUser(cid, filename, stream, u) ==
    [NoArgs EXCEPT !.cid = cid, !.filename = filename, !.stream = stream]

\* the arguments each pass-through method hands to the storage
AddContentFileArgs(cid, filename, stream, u) ==
    [NoArgs EXCEPT !.cid = cid, !.filename = filename, !.stream = stream,
                   !.user = u]
ContentExistsArgs(cid) == [NoArgs EXCEPT !.cid = cid]
CreateContentArgs(md, ct, u, cid) ==
    [NoArgs EXCEPT !.metadata = md, !.content = ct, !.user = u, !.cid = cid]
GetContentFilesArgs(cid, u) == [NoArgs EXCEPT !.cid = cid, !.user = u]
GetContentFileStreamArgsAsOwner(cid, filename, u) ==
    [NoArgs EXCEPT !.cid = cid, !.filename = filename, !.user = "alice"]
GetContentFileStreamArgs(cid, filename, u) ==
    [NoArgs EXCEPT !.cid = cid, !.filename = filename, !.user = u]
GetUserPermissionsArgs(cid, u) == [NoArgs EXCEPT !.cid = cid, !.user = u]

\* lines 40-52
MgrAddContentFile(cid, filename, stream, u, fault) ==
    /\ LET a == AddContentFileArgs(cid, filename, stream, u)
           r == StorageAddContentFile(store, perms, a.cid, a.filename,
                                      a.stream, a.user, fault)
       IN  /\ store' = r.store
           /\ lastCall' = Called("addContentFile",
                  [NoArgs EXCEPT !.cid = cid, !.filename = filename,
                                 !.stream = stream, !.user = u],
                  <<StorageCall("addContentFile", a, IdResult(r.result))>>,
                  IdResult(r.result))
    /\ ncalls' = ncalls + 1
    /\ UNCHANGED <<perms, recreated>>
    /\ UNCHANGED importVars

\* lines 59-61
MgrContentExists(cid) ==
    /\ LET a == ContentExistsArgs(cid)
           r == StorageContentExists(ContentStorage(store), a.cid)
       IN  lastCall' = Called("contentExists", [NoArgs EXCEPT !.cid = cid],
                  <<StorageCall("contentExists", a, FlagResult(r))>>,
                  FlagResult(r))
    /\ ncalls' = ncalls + 1
    /\ UNCHANGED <<store, perms, recreated>>
    /\ UNCHANGED importVars

\* lines 125-137
MgrCreateContent(md, ct, u, cid, fault) ==
    /\ LET a == CreateContentArgs(md, ct, u, cid)
           r == StorageCreateContent(store, a.metadata, a.content, a.user,
                                     a.cid, fault)
       IN  /\ store' = r.store
           /\ lastCall' = Called("createContent",
                  [NoArgs EXCEPT !.metadata = md, !.content = ct, !.user = u,
                                 !.cid = cid],
                  <<StorageCall("createContent", a, IdResult(r.result))>>,
                  IdResult(r.result))
           /\ recreated' = (recreated \/ (pc = "rejected" /\ r.result.ok
                                          /\ r.result.value = newContentId))
    /\ ncalls' = ncalls + 1
    /\ UNCHANGED perms
    /\ UNCHANGED importVars

\* lines 143-145
MgrCreateContentId ==
    /\ LET r == StorageCreateContentId(store)
       IN  lastCall' = Called("createContentId", NoArgs,
                  <<StorageCall("createContentId", NoArgs, IdResult(r))>>,
                  IdResult(r))
    /\ ncalls' = ncalls + 1
    /\ UNCHANGED <<store, perms, recreated>>
    /\ UNCHANGED importVars

\* lines 147-152
MgrGetContentFiles(cid, u) ==
    /\ LET a == GetContentFilesArgs(cid, u)
           r == StorageGetContentFiles(ContentStorage(store), a.cid)
       IN  lastCall' = Called("getContentFiles",
                  [NoArgs EXCEPT !.cid = cid, !.user = u],
                  <<StorageCall("getContentFiles", a, FilesResult(r))>>,
                  FilesResult(r))
    /\ ncalls' = ncalls + 1
    /\ UNCHANGED <<store, perms, recreated>>
    /\ UNCHANGED importVars

\* lines 161-171
MgrGetContentFileStream(cid, filename, u) ==
    /\ LET a == GetContentFileStreamArgs(cid, filename, u)
           r == StorageGetContentFileStream(ContentStorage(store), perms,
                                            a.cid, a.filename, a.user)
       IN  lastCall' = Called("getContentFileStream",
                  [NoArgs EXCEPT !.cid = cid, !.filename = filename,
                                 !.user = u],
                  <<StorageCall("getContentFileStream", a, StreamResult(r))>>,
                  StreamResult(r))
    /\ ncalls' = ncalls + 1
    /\ UNCHANGED <<store, perms, recreated>>
    /\ UNCHANGED importVars

\* lines 179-184
MgrGetUserPermissions(cid, u) ==
    /\ LET a == GetUserPermissionsArgs(cid, u)
           r == StorageGetUserPermissions(perms, a.cid, a.user)
       IN  lastCall' = Called("getUserPermissions",
                  [NoArgs EXCEPT !.cid = cid, !.user = u],
                  <<StorageCall("getUserPermissions", a, GrantsResult(r))>>,
                  GrantsResult(r))
    /\ ncalls' = ncalls + 1
    /\ UNCHANGED <<store, perms, recreated>>
    /\ UNCHANGED importVars

\* a decoder that hands back whatever the parser gave instead of throwing
DecodeStreamLenient(s, file) ==
    CASE s.error # NoError -> DocFail(s.error)
      [] OTHER -> DocOk(JSONParse(s.bytes))

\* streamToString followed by JSON.parse (lines 229-230): a stream that fails
\* rejects with the stream's error, text that is not JSON throws a decode error
DecodeStream(s, file) ==
    CASE s.error # NoError -> DocFail(s.error)
      [] JSONParse(s.bytes) = NoValue ->
            DocFail(Error("DecodeError", "JSON.parse", file))
      [] OTHER -> DocOk(JSONParse(s.bytes))

\* the file loadContent and loadH5PJson read (lines 196 and 209)
JsonFileOf(method) ==
    IF method = "loadContent" THEN ContentFile ELSE MetadataFile

\* lines 219-231, called from loadContent (192-197) and loadH5PJson (205-210)
GetFileJson(method, cid, u) ==
    /\ LET file == JsonFileOf(method)
           s == StorageGetContentFileStream(ContentStorage(store), perms, cid,
                                            file, u)
       IN  lastCall' = Called(method, [NoArgs EXCEPT !.cid = cid, !.user = u],
                  <<StorageCall("getContentFileStream",
                                [NoArgs EXCEPT !.cid = cid, !.filename = file,
                                               !.user = u],
                                StreamResult(s))>>,
                  DocResult(DecodeStream(s, file)))
    /\ ncalls' = ncalls + 1
    /\ UNCHANGED <<store, perms, recreated>>
    /\ UNCHANGED importVars

LoadContent(cid, u) == GetFileJson("loadContent", cid, u)

LoadH5PJson(cid, u) == GetFileJson("loadH5PJson", cid, u)

\* what other callers write
OtherWrites == {<<ContentFile, BadJson>>, <<ImageB, "other">>}

Others ==
    \/ \E cid \in ContentIds, w \in OtherWrites, u \in Users, fault \in BOOLEAN :
           MgrAddContentFile(cid, w[1], w[2], u, fault)
    \/ \E cid \in ContentIds : MgrContentExists(cid)
    \/ \E u \in Users, cid \in ContentIds \cup {NoId}, fault \in BOOLEAN :
           MgrCreateContent(DemoValue, EmptyValue, u, cid, fault)
    \/ MgrCreateContentId
    \/ \E cid \in ContentIds, u \in Users : MgrGetContentFiles(cid, u)
    \/ \E cid \in ContentIds, f \in {MetadataFile, ImageA}, u \in Users :
           MgrGetContentFileStream(cid, f, u)
    \/ \E cid \in ContentIds, u \in Users : MgrGetUserPermissions(cid, u)
    \/ \E cid \in ContentIds, u \in Users : LoadContent(cid, u)
    \/ \E cid \in ContentIds, u \in Users : LoadH5PJson(cid, u)

\* an import running among at most MaxCalls calls of other callers
Next == Import \/ (ncalls < MaxCalls /\ Others)

Spec == Init /\ [][Next]_vars

\* calls of the pass-through and load operations only
NextCalls == ncalls < MaxLoneCalls /\ Others

CallsSpec == Init /\ [][NextCalls]_vars

\* ------------------------------------------------- changes in the backend
\* the backend revokes the permissions of a user on a content object
BackendRevoke(cid, u) ==
    /\ perms[cid][u] # {}
    /\ perms' = [perms EXCEPT ![cid][u] = {}]
    /\ UNCHANGED <<store, recreated, lastCall, ncalls>>
    /\ UNCHANGED importVars

\* the backend deletes a content object
BackendDelete(cid) ==
    /\ store[cid].exists
    /\ store' = [store EXCEPT ![cid] = NoObject]
    /\ UNCHANGED <<perms, recreated, lastCall, ncalls>>
    /\ UNCHANGED importVars

\* a file of a content object is overwritten in the backend
BackendOverwrite(cid, filename, bytes) ==
    /\ store[cid].exists
    /\ store[cid].files[filename] \notin {Missing, bytes}
    /\ store' = [store EXCEPT ![cid].files[filename] = bytes]
    /\ UNCHANGED <<perms, recreated, lastCall, ncalls>>
    /\ UNCHANGED importVars

Backend ==
    \/ \E cid \in ContentIds, u \in Users : BackendRevoke(cid, u)
    \/ \E cid \in ContentIds : BackendDelete(cid)
    \/ \E cid \in ContentIds : BackendOverwrite(cid, MetadataFile, EmptyObject)

\* calls of the pass-through and load operations while the backend changes
NextChurn == (ncalls < MaxLoneCalls /\ Others) \/ Backend

ChurnSpec == Init /\ [][NextChurn]_vars

\* the import alone, where every backend call that was issued eventually
\* settles and a continuation that is ready to run runs
FairSpec ==
    /\ Init
    /\ [][Import]_vars
    /\ WF_vars(StartCopies)
    /\ WF_vars(\E f \in StoragePaths, fault \in BOOLEAN : CopySettle(f, fault))
    /\ WF_vars(\E fault \in BOOLEAN : DeleteSettle(fault))

\* ------------------------------------------------------------- properties
Events(op, ev) == {i \in 1..Len(log) : log[i].op = op /\ log[i].ev = ev}

Finished == pc \in {"returned", "rejected"}

\* the catch block of the copy phase has run: a copy failed while the call
\* was waiting for the copies
CopyPhaseFailed == error # NoError

FullyAbsent(cid) ==
    /\ ~StorageContentExists(store, cid)
    /\ \A p \in StoragePaths : store[cid].files[p] = Missing

C2_FailurePolicy ==
    (Finished /\ \E f \in StoragePaths : copy[f] = "failed")
        => /\ pc = "rejected"
           /\ Cardinality(Events("deleteContent", "call")) = 1
           /\ Cardinality(Events("deleteContent", "ok")
                          \cup Events("deleteContent", "fail")) = 1
           /\ result.error.op = "addContentFile"
           /\ \E f \in StoragePaths :
                  copy[f] = "failed" /\ result.error.file = f

\* C3: when a copy failed with E and the rollback deleteContent failed with D,
\* the call rejects with E.
C3_RollbackFailureDoesNotMask ==
    (pc = "rejected" /\ CopyPhaseFailed /\ Events("deleteContent", "fail") # {})
        => result = Fail(error)

\* C4: deleteContent is issued, and the call returns or rejects, only when no
\* addContentFile of the import is still in flight.
C4_AllSettleThenDecide ==
    (pc \in {"rollback", "returned", "rejected"})
        => \A f \in StoragePaths : copy[f] # "inflight"

\* C5: every addContentFile of the import is started after createContent has
\* returned successfully.
C5_CommitBeforeCopy ==
    \A i \in 1..Len(log) :
        log[i].op = "addContentFile"
            => \E j \in 1..(i - 1) :
                   log[j].op = "createContent" /\ log[j].ev = "ok"

\* the copies are under way: one has settled while another is still running
C5_Witness ==
    /\ pc = "copying"
    /\ \E f, g \in StoragePaths : copy[f] = "ok" /\ copy[g] = "inflight"

\* C6: a call that fails before the copy phase rolls nothing back.  When a
\* document of the package cannot be read or decoded the call rejects with
\* that error and has invoked no storage operation; when createContent fails
\* the call rejects with createContent's error and has invoked nothing else.
ReadFailure(file) ==
    Fail(Error(IF FileBytes(pkg, file) = Missing THEN "IOError" ELSE "DecodeError",
               "readJSON", file))

Undecodable(file) == JSONParse(FileBytes(pkg, file)) = NoValue

C6_NoRollbackBeforeCopyPhase ==
    LET h5p == PackageDirectory \o <<H5pJsonName>>
        cjs == PackageDirectory \o <<ContentDirName, ContentJsonName>>
    IN  /\ (pc \notin {"idle", "readMetadata"} /\ Undecodable(h5p))
               => (pc = "rejected" /\ result = ReadFailure(h5p) /\ log = <<>>)
        /\ (pc \notin {"idle", "readMetadata", "readContent"}
                /\ ~Undecodable(h5p) /\ Undecodable(cjs))
               => (pc = "rejected" /\ result = ReadFailure(cjs) /\ log = <<>>)
        /\ (Events("createContent", "fail") # {}
               => /\ pc = "rejected"
                  /\ result = Fail(Error("StorageError", "createContent", NoPath))
                  /\ \A i \in 1..Len(log) : log[i].op = "createContent")

\* createContent has failed and the call has rejected
C6_Witness ==
    /\ pc = "rejected"
    /\ Events("createContent", "fail") # {}
    /\ result.error.op = "createContent"

\* C7: when every backend call succeeded and nobody else touched the storage,
\* the returned id exists, its files are exactly the auxiliary files of the
\* package, and its metadata document decodes to the package's metadata.
C7_ImportSuccess ==
    (pc = "returned" /\ ncalls = 0)
        => /\ StorageContentExists(store, result.value)
           /\ StorageGetContentFiles(store, result.value) = pkg.aux
           /\ DecodeStream(StorageGetContentFileStream(
                  store, perms, result.value, MetadataFile, "alice"),
                  MetadataFile) = DocOk(JSONParse(pkg.h5p))

\* C8: once createContent has committed the call ends, and ends in one of two
\* ways: it returns newContentId with every copy succeeded, or it rejects
\* after deleteContent has been issued.
Committed == Events("createContent", "ok") # {}

C8_TwoOutcomes ==
    \/ /\ pc = "returned"
       /\ result = Ok(newContentId)
       /\ \A f \in StoragePaths : copy[f] \in {"none", "ok"}
    \/ /\ pc = "rejected"
       /\ Events("deleteContent", "call") # {}

C8_RunToCompletion ==
    /\ [](Committed /\ Finished => C8_TwoOutcomes)
    /\ (Committed ~> Finished)

\* the call has rejected after a rollback that was issued for a failed copy
C8_Witness ==
    /\ Committed
    /\ pc = "rejected"
    /\ Events("deleteContent", "call") # {}

\* C9: loadContent and loadH5PJson make one getContentFileStream call for the
\* reserved file with the caller's user; an error of the stream is the error
\* of the call, text that is not JSON gives a decode error, and the storage is
\* left as it was.
LoadMethods == {"loadContent", "loadH5PJson"}

C9_Reads ==
    lastCall.method \in LoadMethods =>
        /\ Len(lastCall.calls) = 1
        /\ lastCall.calls[1].op = "getContentFileStream"
        /\ lastCall.calls[1].args.cid = lastCall.args.cid
        /\ lastCall.calls[1].args.user = lastCall.args.user
        /\ lastCall.calls[1].args.filename =
               (IF lastCall.method = "loadContent"
                THEN <<ContentDirName, ContentJsonName>>
                ELSE <<H5pJsonName>>)
        /\ LET s == lastCall.calls[1].result
           IN  /\ ~s.ok => (~lastCall.result.ok /\ lastCall.result.error = s.error)
               /\ (s.ok /\ JSONParse(s.text) = NoValue)
                      => /\ ~lastCall.result.ok
                         /\ lastCall.result.error.kind = "DecodeError"
               /\ (s.ok /\ JSONParse(s.text) # NoValue)
                      => /\ lastCall.result.ok
                         /\ lastCall.result.text = JSONParse(s.text)

C9_LoadIsolation ==
    /\ []C9_Reads
    /\ [][(ncalls' # ncalls /\ lastCall'.method \in LoadMethods)
             => (store' = store /\ perms' = perms)]_vars

\* loadContent has failed to decode a content-definition file that is there
C9_Witness ==
    /\ lastCall.method = "loadContent"
    /\ lastCall.calls[1].result.ok
    /\ ~lastCall.result.ok
    /\ lastCall.result.error.kind = "DecodeError"

\* C10: a pass-through method makes exactly one storage call, the one of its
\* own name with its own arguments, and yields what that call yielded; a
\* method that only reads yields what the storage holds.
PassThroughMethods ==
    {"addContentFile", "contentExists", "createContent", "createContentId",
     "getContentFiles", "getContentFileStream", "getUserPermissions"}

C10_PassThrough ==
    lastCall.method \in PassThroughMethods =>
        /\ Len(lastCall.calls) = 1
        /\ lastCall.calls[1].op = lastCall.method
        /\ lastCall.calls[1].args = lastCall.args
        /\ lastCall.result = lastCall.calls[1].result
        /\ lastCall.method = "contentExists" =>
               lastCall.result.flag =
                   StorageContentExists(store, lastCall.args.cid)
        /\ lastCall.method = "getContentFiles" =>
               lastCall.result.files =
                   StorageGetContentFiles(store, lastCall.args.cid)
        /\ lastCall.method = "getUserPermissions" =>
               lastCall.result.grants =
                   StorageGetUserPermissions(perms, lastCall.args.cid,
                                             lastCall.args.user)
        /\ lastCall.method = "getContentFileStream" =>
               lastCall.result =
                   StreamResult(StorageGetContentFileStream(
                       store, perms, lastCall.args.cid,
                       lastCall.args.filename, lastCall.args.user))

\* addContentFile has surfaced the PermissionError of the storage
C10_Witness ==
    /\ lastCall.method = "addContentFile"
    /\ ~lastCall.result.ok
    /\ lastCall.result.error.kind = "PermissionError"
    /\ lastCall.args.user = "bob"

\* C11: a user without the read capability on a content object gets a
\* PermissionError and no stream from getContentFileStream, also when the
\* file is there, and no document from loadContent or loadH5PJson.
StreamMethods == {"getContentFileStream", "loadContent", "loadH5PJson"}

C11_PermissionBoundary ==
    (lastCall.method \in StreamMethods
         /\ "View" \notin
                StorageGetUserPermissions(perms, lastCall.args.cid,
                                          lastCall.args.user))
        => /\ ~lastCall.result.ok
           /\ lastCall.result.error.kind = "PermissionError"
           /\ lastCall.result.text \in {Missing, NoValue}

\* a user without the read capability has asked for a file that is there
C11_Witness ==
    /\ lastCall.method = "getContentFileStream"
    /\ lastCall.args.user = "bob"
    /\ StorageContentExists(store, lastCall.args.cid)
    /\ store[lastCall.args.cid].files[lastCall.args.filename] # Missing
    /\ lastCall.result.error.kind = "PermissionError"

\* C12: addContentFile is never called for the content-definition document
\* content/content.json of the package.
C12_ContentDefinitionExcluded ==
    \A i \in 1..Len(log) :
        log[i].op = "addContentFile" => <<ContentJsonName>> \notin log[i].files

\* the local paths for which the copy phase has started an addContentFile
Started == UNION {log[i].files : i \in Events("addContentFile", "call")}

CopyPhaseEntered == Committed /\ pc # "startCopies"

\* C13: once the copy phase is entered, addContentFile has been started, for
\* the new id, for exactly the files under content/ other than the
\* content-definition document, whatever their names, under their paths
\* relative to content/, and for nothing else.
C13_EnumerationComplete ==
    CopyPhaseEntered =>
        /\ Started = pkg.aux
        /\ \A i \in Events("addContentFile", "call") : log[i].id = newContentId

\* C16: the import of a package without auxiliary files, once createContent
\* has succeeded, returns newContentId and has started no addContentFile
\* and no deleteContent.
C16_EmptyImport ==
    (pkg.aux = {} /\ CopyPhaseEntered)
        => /\ pc = "returned"
           /\ result = Ok(newContentId)
           /\ \A i \in 1..Len(log) : log[i].op = "createContent"

\* C14: the import asks for no permissions: its storage calls are
\* createContent, addContentFile and deleteContent only, the importing user
\* goes to createContent and to nothing else, and no copy of the import
\* fails with a PermissionError.
C14_NoPermissionCheck ==
    /\ \A i \in 1..Len(log) :
           /\ log[i].op \in {"createContent", "addContentFile", "deleteContent"}
           /\ log[i].op = "createContent" => log[i].user = user
           /\ log[i].op # "createContent" => log[i].user = NoUser
    /\ error.kind # "PermissionError"
    /\ result.error.kind # "PermissionError"

\* a user without the write capability has imported a package with its files
C14_Witness ==
    /\ pc = "returned"
    /\ user = "bob"
    /\ "Edit" \notin StorageGetUserPermissions(perms, newContentId, user)
    /\ \E f \in StoragePaths : copy[f] = "ok"

\* C15: a step of the import changes no content object other than the one
\* with its own newContentId; whether it commits, copies or rolls back,
\* every other object and its files stay as they are.
C15_ImportFrame ==
    [][ncalls' = ncalls
          => \A i \in ContentIds :
                 i # newContentId' => store'[i] = store[i]]_vars

\* an import has been rolled back next to the object of somebody else
C15_Witness ==
    /\ pc = "rejected"
    /\ Events("deleteContent", "ok") # {}
    /\ ~StorageContentExists(store, newContentId)
    /\ \E i \in ContentIds : i # newContentId /\ store[i].exists

\* C17: createContent is called with the caller's contentId (or with none
\* when the caller gave none); the id a successful call returns is the id
\* createContent returned, which is the caller's when one was given; and
\* every addContentFile and the rollback deleteContent use that id.
C17_ContentIdHandling ==
    /\ \A i \in Events("createContent", "call") : log[i].id = contentId
    /\ \A i \in Events("createContent", "ok") :
           /\ log[i].id = newContentId
           /\ contentId # NoId => log[i].id = contentId
    /\ \A i \in 1..Len(log) :
           log[i].op \in {"addContentFile", "deleteContent"}
               => (log[i].id = newContentId /\ Committed)
    /\ pc = "returned"
           => /\ result = Ok(newContentId)
              /\ Committed
              /\ contentId # NoId => result.value = contentId

\* an import under an id of the caller's choice has returned that id
C17_Witness ==
    /\ pc = "returned"
    /\ contentId # NoId
    /\ result.value = contentId
    /\ \E i \in Events("addContentFile", "ok") : log[i].id = contentId

\* C18: a call that reads yields what the backend holds when the call is
\* made, whatever was read before and however the backend has changed since.
ReadsBackend ==
    LET a == lastCall.args
        r == lastCall.result
        s == StorageGetContentFileStream(
                 store, perms, a.cid,
                 IF lastCall.method = "loadContent" THEN ContentFile
                 ELSE IF lastCall.method = "loadH5PJson" THEN MetadataFile
                 ELSE a.filename,
                 a.user)
    IN  CASE lastCall.method = "contentExists" ->
                 r.flag = StorageContentExists(store, a.cid)
          [] lastCall.method = "getContentFiles" ->
                 r.files = StorageGetContentFiles(store, a.cid)
          [] lastCall.method = "getUserPermissions" ->
                 r.grants = StorageGetUserPermissions(perms, a.cid, a.user)
          [] lastCall.method = "getContentFileStream" ->
                 r.error = s.error /\ r.text = s.bytes
          [] lastCall.method \in LoadMethods ->
                 IF s.error # NoError THEN r.error = s.error
                 ELSE IF JSONParse(s.bytes) = NoValue
                      THEN r.error.kind = "DecodeError"
                      ELSE r.ok /\ r.text = JSONParse(s.bytes)
          [] OTHER -> TRUE

C18_NoCaching == [][ncalls' # ncalls => ReadsBackend']_vars

\* a user whose permission was revoked in the backend is turned away by the
\* next read
C18_Witness ==
    /\ lastCall.method \in StreamMethods
    /\ lastCall.args.user = "alice"
    /\ lastCall.result.error.kind = "PermissionError"
    /\ StorageContentExists(store, lastCall.args.cid)

====
